---- MODULE Spec2Model ----
(***************************************************************************)
(* Model of the student grade analyzer (lecture_3/main.py) and of the      *)
(* book-catalog service's search endpoint (lecture_5/book_api/main.py).    *)
(*                                                                         *)
(* Text is a sequence of one-character strings, so that normalisation,     *)
(* title-casing and integer parsing are computed character by character.   *)
(* A state of the analyzer is the program blocked in one of its input()    *)
(* calls; one action is one line read plus everything the program does     *)
(* until it blocks in the next input() call.  `inp` is the line just read, *)
(* `out` the lines printed since that read.                                *)
(***************************************************************************)
EXTENDS Integers, Sequences, FiniteSets, TLC

VARIABLES students, pc, cur, inp, out, books, req, resp

rosterVars == <<students, pc, cur, inp, out>>
bookVars == <<books, req, resp>>
vars == <<students, pc, cur, inp, out, books, req, resp>>

(* Bound on the number of grades held by the whole roster. *)
MaxGrades == 3

(* Bounds on the rows of the books table and on the ids it hands out. *)
MaxBooks == 2
MaxId == 3

(* ------------------------------ characters ----------------------------- *)

LowerLetters ==
    <<"a","b","c","d","e","f","g","h","i","j","k","l","m",
      "n","o","p","q","r","s","t","u","v","w","x","y","z">>

UpperLetters ==
    <<"A","B","C","D","E","F","G","H","I","J","K","L","M",
      "N","O","P","Q","R","S","T","U","V","W","X","Y","Z">>

Digits == <<"0","1","2","3","4","5","6","7","8","9">>

Range(f) == {f[i] : i \in DOMAIN f}

IndexOf(c, f) == CHOOSE i \in DOMAIN f : f[i] = c

LowerSet == Range(LowerLetters)
UpperSet == Range(UpperLetters)
DigitSet == Range(Digits)

IsLower(c) == c \in LowerSet
IsUpper(c) == c \in UpperSet
IsAlpha(c) == IsLower(c) \/ IsUpper(c)
IsSpace(c) == c \in {" ", "\t"}
IsDigit(c) == c \in DigitSet

ToLower(c) == IF IsUpper(c) THEN LowerLetters[IndexOf(c, UpperLetters)] ELSE c
ToUpper(c) == IF IsLower(c) THEN UpperLetters[IndexOf(c, LowerLetters)] ELSE c

(* str.lower() *)
LowerStr(s) == [i \in DOMAIN s |-> ToLower(s[i])]

(* str.split() with no argument: the maximal runs of non-whitespace. *)
RECURSIVE SplitFrom(_, _, _)
SplitFrom(s, word, acc) ==
    IF s = <<>> THEN (IF word = <<>> THEN acc ELSE Append(acc, word))
    ELSE IF IsSpace(Head(s))
         THEN SplitFrom(Tail(s), <<>>, IF word = <<>> THEN acc ELSE Append(acc, word))
         ELSE SplitFrom(Tail(s), Append(word, Head(s)), acc)

Split(s) == SplitFrom(s, <<>>, <<>>)

(* ' '.join(words) *)
RECURSIVE Join(_)
Join(ws) ==
    IF ws = <<>> THEN <<>>
    ELSE IF Len(ws) = 1 THEN Head(ws)
    ELSE Head(ws) \o <<" ">> \o Join(Tail(ws))

(* str.title(): a cased character is upper-cased when the character before *)
(* it is not cased, and lower-cased otherwise.                             *)
RECURSIVE TitleFrom(_, _)
TitleFrom(s, prevCased) ==
    IF s = <<>> THEN <<>>
    ELSE LET c == Head(s)
             d == IF ~IsAlpha(c) THEN c
                  ELSE IF prevCased THEN ToLower(c) ELSE ToUpper(c)
         IN <<d>> \o TitleFrom(Tail(s), IsAlpha(c))

Title(s) == TitleFrom(s, FALSE)

Normalize(s) == Title(Join(Split(s)))

(* int(text): surrounding whitespace stripped, an optional sign, then      *)
(* digits, single underscores allowed between digits.  ValueError is       *)
(* [ok |-> FALSE].                                                         *)
RECURSIVE Strip(_)
Strip(s) ==
    IF s = <<>> THEN s
    ELSE IF IsSpace(Head(s)) THEN Strip(Tail(s))
    ELSE IF IsSpace(s[Len(s)]) THEN Strip(SubSeq(s, 1, Len(s) - 1))
    ELSE s

DigitsOk(s) ==
    /\ s # <<>>
    /\ IsDigit(s[1])
    /\ IsDigit(s[Len(s)])
    /\ \A i \in DOMAIN s : IsDigit(s[i]) \/ s[i] = "_"
    /\ \A i \in 1..(Len(s) - 1) : ~(s[i] = "_" /\ s[i + 1] = "_")

RECURSIVE DigitsValue(_, _)
DigitsValue(s, acc) ==
    IF s = <<>> THEN acc
    ELSE IF Head(s) = "_" THEN DigitsValue(Tail(s), acc)
    ELSE DigitsValue(Tail(s), 10 * acc + (IndexOf(Head(s), Digits) - 1))

ParseInt(text) ==
    LET s == Strip(text)
        signed == s # <<>> /\ Head(s) \in {"+", "-"}
        body == IF signed THEN Tail(s) ELSE s
    IN IF DigitsOk(body)
       THEN [ok |-> TRUE,
             val |-> IF signed /\ Head(s) = "-"
                     THEN 0 - DigitsValue(body, 0) ELSE DigitsValue(body, 0)]
       ELSE [ok |-> FALSE, val |-> 0]

(* ------------------------- lecture_3: the roster ----------------------- *)

(* One printed line: a tag, the name it mentions (or <<>>) and the number  *)
(* it shows, in tenths (or 0).                                             *)
Line(tag, name, val) == <<tag, name, val>>

(* The menu printed at the top of every iteration of the main loop. *)
Banner == Line("menu", <<>>, 0)

DONE == <<"d","o","n","e">>

(* The lines a user may type at each prompt. *)
ChoiceInputs ==
    { <<"1">>, <<"2">>, <<"3">>, <<"4">>, <<"5">>, <<" ","5">>,
      <<"6">>, <<"0">>, <<"a","b","c">> }

NameInputs ==
    { <<"a","l">>, <<" ","A","L"," ">>,
      <<"a"," "," ","l">>,
      <<"o","'","n">>,
      <<>>, <<"a","1">> }

GradeInputs ==
    { DONE, <<"D","O","N","E">>, <<"D","o","n","e">>,
      <<"0">>, <<"1","0","0">>,
      <<"1","0","1">>, <<"-","1">>, <<"a","b","c">> }

NameCharOk(c) == IsAlpha(c) \/ IsSpace(c) \/ c = "-" \/ c = "'"

(* check_input: the cleaned name, or None with the complaint printed. *)
CheckInput(s) ==
    LET name == Normalize(s)
    IN IF name = <<>> \/ ~(\A i \in DOMAIN name : NameCharOk(name[i]))
       THEN [ok |-> FALSE, name |-> <<>>]
       ELSE [ok |-> TRUE, name |-> name]

(* A buggy variant of find_student that skips the first record. *)
FindStudentSkipFirst(roster, name) ==
    IF \E i \in 2..Len(roster) : roster[i].name = name
    THEN CHOOSE i \in 2..Len(roster) :
             /\ roster[i].name = name
             /\ \A j \in 2..(i - 1) : roster[j].name # name
    ELSE 0

(* find_student: the index of the first record with that name, 0 for None. *)
FindStudent(roster, name) ==
    IF \E i \in DOMAIN roster : roster[i].name = name
    THEN CHOOSE i \in DOMAIN roster :
             /\ roster[i].name = name
             /\ \A j \in 1..(i - 1) : roster[j].name # name
    ELSE 0

(* A buggy variant of valid_input that forgets the lower end of the range. *)
ValidInputNoLowerBound(g) ==
    IF LowerStr(g) = DONE THEN [kind |-> "done", val |-> 0]
    ELSE LET v == ParseInt(g)
         IN IF v.ok /\ v.val <= 100
            THEN [kind |-> "grade", val |-> v.val]
            ELSE [kind |-> "none", val |-> 0]

(* valid_input: "done", an integer of 0..100, or None. *)
ValidInput(g) ==
    IF LowerStr(g) = DONE THEN [kind |-> "done", val |-> 0]
    ELSE LET v == ParseInt(g)
         IN IF v.ok /\ 0 <= v.val /\ v.val <= 100
            THEN [kind |-> "grade", val |-> v.val]
            ELSE [kind |-> "none", val |-> 0]

RECURSIVE Sum(_)
Sum(s) == IF s = <<>> THEN 0 ELSE Head(s) + Sum(Tail(s))

TotalGrades(roster) == Sum([i \in DOMAIN roster |-> Len(roster[i].grades)])

(* round(num / den, 1) in tenths.  The quotient of two integers is         *)
(* correctly rounded, and a tie in the second decimal is a multiple of     *)
(* 1/4 whenever den < 20, which a double holds exactly: such a tie goes to *)
(* the even tenth.                                                         *)
Round1(num, den) ==
    LET q == (10 * num) \div den
        r == (10 * num) % den
    IN IF 2 * r < den THEN q
       ELSE IF 2 * r > den THEN q + 1
       ELSE IF q % 2 = 0 THEN q ELSE q + 1

(* round(sum(averages) / len(averages), 1) in tenths, `averages` given in  *)
(* tenths.  The summands are doubles that are not exact tenths, so when    *)
(* the exact mean is a tie the double lies on either side of it: both      *)
(* neighbours are possible results.                                        *)
OverallChoices(averages) ==
    LET num == Sum(averages)
        den == Len(averages)
        q == num \div den
        r == num % den
    IN IF 2 * r < den THEN {q}
       ELSE IF 2 * r > den THEN {q + 1}
       ELSE {q, q + 1}

Average(st) == Round1(Sum(st.grades), Len(st.grades))

RECURSIVE SelectGraded(_)
SelectGraded(roster) ==
    IF roster = <<>> THEN <<>>
    ELSE IF Head(roster).grades # <<>>
         THEN <<Head(roster)>> \o SelectGraded(Tail(roster))
         ELSE SelectGraded(Tail(roster))

RECURSIVE MaxOf(_)
MaxOf(s) ==
    IF Len(s) = 1 THEN Head(s)
    ELSE LET m == MaxOf(Tail(s)) IN IF Head(s) >= m THEN Head(s) ELSE m

RECURSIVE MinOf(_)
MinOf(s) ==
    IF Len(s) = 1 THEN Head(s)
    ELSE LET m == MinOf(Tail(s)) IN IF Head(s) <= m THEN Head(s) ELSE m

(* The per-student lines of show_report, in roster order. *)
StudentLines(roster) ==
    [i \in DOMAIN roster |->
        IF roster[i].grades = <<>>
        THEN Line("na", roster[i].name, 0)
        ELSE Line("avg", roster[i].name, Average(roster[i]))]

(* The list `averages` of show_report: the rounded averages of the graded. *)
Averages(roster) ==
    LET graded == SelectGraded(roster)
    IN [i \in DOMAIN graded |-> Average(graded[i])]

(* The lines after the per-student lines, one sequence per possible       *)
(* overall average: max and min are rounded again, which changes nothing   *)
(* of a value already in tenths.                                           *)
SummaryLines(averages) ==
    IF averages # <<>>
    THEN { << Line("sep", <<>>, 0),
              Line("max", <<>>, MaxOf(averages)),
              Line("min", <<>>, MinOf(averages)),
              Line("overall", <<>>, overall) >> :
           overall \in OverallChoices(averages) }
    ELSE { << Line("no_grades_summary", <<>>, 0) >> }

(* A buggy show_report without the check for an empty roster. *)
ShowReportLinesNoEmptyCheck(roster) ==
    { << Line("header", <<>>, 0) >> \o StudentLines(roster) \o summary :
      summary \in SummaryLines(Averages(roster)) }

(* What show_report prints. *)
ShowReportLines(roster) ==
    IF roster = <<>> THEN { << Line("no_students", <<>>, 0) >> }
    ELSE { << Line("header", <<>>, 0) >> \o StudentLines(roster) \o summary :
           summary \in SummaryLines(Averages(roster)) }

(* a's unrounded average is greater than b's: sum(a)/len(a) > sum(b)/len(b) *)
AvgGreater(a, b) ==
    Sum(a.grades) * Len(b.grades) > Sum(b.grades) * Len(a.grades)

(* max(graded, key = average): the first of the greatest. *)
RECURSIVE MaxByAverage(_, _)
MaxByAverage(best, rest) ==
    IF rest = <<>> THEN best
    ELSE MaxByAverage(IF AvgGreater(Head(rest), best) THEN Head(rest) ELSE best,
                      Tail(rest))

(* A buggy selection that lets a later student with an equal average win. *)
RECURSIVE MaxByAverageLast(_, _)
MaxByAverageLast(best, rest) ==
    IF rest = <<>> THEN best
    ELSE MaxByAverageLast(IF AvgGreater(best, Head(rest)) THEN best ELSE Head(rest),
                          Tail(rest))

TopStudentLast(graded) == MaxByAverageLast(Head(graded), Tail(graded))

TopStudent(graded) == MaxByAverage(Head(graded), Tail(graded))

(* A buggy find_top_performer that cuts the average off after one decimal. *)
FindTopPerformerLinesTruncating(roster) ==
    IF roster = <<>> THEN << Line("no_students", <<>>, 0) >>
    ELSE LET graded == SelectGraded(roster)
         IN IF graded = <<>> THEN << Line("no_grades", <<>>, 0) >>
            ELSE LET top == TopStudent(graded)
                 IN << Line("top", top.name,
                            (10 * Sum(top.grades)) \div Len(top.grades)) >>

(* What find_top_performer prints. *)
FindTopPerformerLines(roster) ==
    IF roster = <<>> THEN << Line("no_students", <<>>, 0) >>
    ELSE LET graded == SelectGraded(roster)
         IN IF graded = <<>> THEN << Line("no_grades", <<>>, 0) >>
            ELSE LET top == TopStudent(graded)
                 IN << Line("top", top.name, Average(top)) >>

(* A buggy show_report that drops the records without grades. *)
ShowReportDroppingEmpty ==
    /\ \E lines \in ShowReportLines(students) : out' = lines \o <<Banner>>
    /\ students' = SelectGraded(students)

(* show_report, then the main loop's next banner. *)
ShowReport ==
    /\ \E lines \in ShowReportLines(students) : out' = lines \o <<Banner>>
    /\ students' = students

(* find_top_performer, then the main loop's next banner. *)
FindTopPerformer ==
    /\ out' = FindTopPerformerLines(students) \o <<Banner>>
    /\ students' = students

(* exit_5 *)
Exit5 ==
    /\ out' = << Line("exiting", <<>>, 0) >>
    /\ students' = students

(* menu(select) and the rest of the loop iteration: add_student and        *)
(* add_grades block in their first prompt; the others return, and the loop *)
(* breaks after 5.                                                         *)
Menu(select) ==
    CASE select = 1 -> /\ pc' = "add_student"
                       /\ out' = <<>>
                       /\ UNCHANGED <<students, cur>>
      [] select = 2 -> /\ pc' = "add_grades"
                       /\ out' = <<>>
                       /\ UNCHANGED <<students, cur>>
      [] select = 3 -> ShowReport /\ UNCHANGED <<pc, cur>>
      [] select = 4 -> FindTopPerformer /\ UNCHANGED <<pc, cur>>
      [] select = 5 -> Exit5 /\ pc' = "exit" /\ UNCHANGED cur
      [] OTHER -> /\ out' = <<Banner>>
                  /\ UNCHANGED <<students, pc, cur>>

(* A buggy main loop whose range check lets 0 and 6 through. *)
MainLoopWideRange(s) ==
    /\ pc = "choice"
    /\ inp' = s
    /\ LET choice == ParseInt(s)
       IN IF ~choice.ok \/ choice.val > 6 \/ choice.val < 0
          THEN /\ out' = << Line("range_error", <<>>, 0), Banner >>
               /\ UNCHANGED <<students, pc, cur>>
          ELSE Menu(choice.val)

(* One iteration of the main program loop. *)
MainLoop(s) ==
    /\ pc = "choice"
    /\ inp' = s
    /\ LET choice == ParseInt(s)
       IN IF ~choice.ok \/ choice.val > 5 \/ choice.val < 1
          THEN /\ out' = << Line("range_error", <<>>, 0), Banner >>
               /\ UNCHANGED <<students, pc, cur>>
          ELSE Menu(choice.val)

(* A buggy add_student that puts the new record first. *)
AddStudentAtFront(s) ==
    /\ pc = "add_student"
    /\ inp' = s
    /\ LET r == CheckInput(s)
       IN IF ~r.ok
          THEN /\ out' = << Line("invalid_name", <<>>, 0) >>
               /\ UNCHANGED <<students, pc, cur>>
          ELSE IF FindStudent(students, r.name) # 0
          THEN /\ out' = << Line("exists", r.name, 0) >>
               /\ UNCHANGED <<students, pc, cur>>
          ELSE /\ students' = <<[name |-> r.name, grades |-> <<>>]>> \o students
               /\ pc' = "choice"
               /\ out' = <<Banner>>
               /\ UNCHANGED cur

(* One iteration of add_student's loop. *)
AddStudent(s) ==
    /\ pc = "add_student"
    /\ inp' = s
    /\ LET r == CheckInput(s)
       IN IF ~r.ok
          THEN /\ out' = << Line("invalid_name", <<>>, 0) >>
               /\ UNCHANGED <<students, pc, cur>>
          ELSE IF FindStudent(students, r.name) # 0
          THEN /\ out' = << Line("exists", r.name, 0) >>
               /\ UNCHANGED <<students, pc, cur>>
          ELSE /\ students' = Append(students, [name |-> r.name, grades |-> <<>>])
               /\ pc' = "choice"
               /\ out' = <<Banner>>
               /\ UNCHANGED cur

(* A buggy add_grades that asks again for a name that is not found. *)
AddGradesRetrying(s) ==
    /\ pc = "add_grades"
    /\ inp' = s
    /\ LET r == CheckInput(s)
           student == FindStudent(students, r.name)
       IN IF ~r.ok
          THEN /\ out' = << Line("invalid_name", <<>>, 0) >>
               /\ UNCHANGED <<students, pc, cur>>
          ELSE IF student = 0
          THEN /\ out' = << Line("not_found", r.name, 0) >>
               /\ UNCHANGED <<students, pc, cur>>
          ELSE /\ cur' = student
               /\ pc' = "grade"
               /\ out' = <<>>
               /\ UNCHANGED students

(* One iteration of add_grades' outer loop: the name prompt. *)
AddGrades(s) ==
    /\ pc = "add_grades"
    /\ inp' = s
    /\ LET r == CheckInput(s)
           student == FindStudent(students, r.name)
       IN IF ~r.ok
          THEN /\ out' = << Line("invalid_name", <<>>, 0) >>
               /\ UNCHANGED <<students, pc, cur>>
          ELSE IF student = 0
          THEN /\ out' = << Line("not_found", r.name, 0), Banner >>
               /\ pc' = "choice"
               /\ UNCHANGED <<students, cur>>
          ELSE /\ cur' = student
               /\ pc' = "grade"
               /\ out' = <<>>
               /\ UNCHANGED students

(* One iteration of add_grades' inner loop: the grade prompt.  A grade is  *)
(* read only while the roster holds fewer than MaxGrades grades.           *)
AddGradesLoop(s) ==
    /\ pc = "grade"
    /\ inp' = s
    /\ LET result == ValidInput(s)
       IN IF result.kind = "done"
          THEN /\ pc' = "choice"
               /\ cur' = 0
               /\ out' = <<Banner>>
               /\ UNCHANGED students
          ELSE IF result.kind = "grade"
          THEN /\ TotalGrades(students) < MaxGrades
               /\ students' = [students EXCEPT
                                 ![cur].grades = Append(@, result.val)]
               /\ out' = <<>>
               /\ UNCHANGED <<pc, cur>>
          ELSE /\ out' = << Line("invalid_grade", <<>>, 0) >>
               /\ UNCHANGED <<students, pc, cur>>

(* ----------------------- lecture_5: the book catalog ------------------- *)

(* An optional value: None is <<>>, a given value v is <<v>>. *)
None == <<>>
Some(v) == <<v>>

(* date.today().year *)
CurrentYear == 2026

TitleInputs == { <<"a","b">>, <<"B">>, <<" ">> }
AuthorInputs == { <<"x">>, <<>> }
YearInputs == { None, Some(0), Some(1999), Some(-1), Some(2027) }

SearchTitles == { None, Some(<<"b">>), Some(<<"A">>) }
SearchAuthors == { None, Some(<<"X">>) }
SearchYears == { None, Some(0), Some(1999) }

UpdateTitles == { None, Some(<<"B">>), Some(<<" ">>) }
UpdateAuthors == { None, Some(<<"y">>) }
UpdateYears == { None, Some(0), Some(-1) }

(* not_empty of BookCreate: the field is rejected when blank. *)
NotEmpty(v) == ~(v = <<>> \/ Strip(v) = <<>>)

(* not_empty of BookUpdate: None passes, a blank field is rejected. *)
NotEmptyOpt(v) == ~(v # None /\ Strip(v[1]) = <<>>)

(* valid_year: None, or a year of 0..today's year. *)
ValidYear(v) == v = None \/ ~(v[1] < 0 \/ v[1] > CurrentYear)

(* SQL LIKE without an escape character, case-insensitive: % matches any   *)
(* run of characters and _ any one character.                              *)
RECURSIVE LikeMatch(_, _)
LikeMatch(pattern, text) ==
    IF pattern = <<>> THEN text = <<>>
    ELSE IF Head(pattern) = "%"
         THEN \/ LikeMatch(Tail(pattern), text)
              \/ text # <<>> /\ LikeMatch(pattern, Tail(text))
         ELSE /\ text # <<>>
              /\ Head(pattern) = "_" \/ ToLower(Head(pattern)) = ToLower(Head(text))
              /\ LikeMatch(Tail(pattern), Tail(text))

(* column.ilike(f"%{value}%") *)
ILike(column, value) == LikeMatch(<<"%">> \o value \o <<"%">>, column)

(* The rowid SQLite gives a new row: one more than the greatest in use. *)
NewId(rows) ==
    IF rows = <<>> THEN 1
    ELSE 1 + CHOOSE m \in {rows[i].id : i \in DOMAIN rows} :
                 \A i \in DOMAIN rows : rows[i].id <= m

Request(op, id, title, author, year) ==
    [op |-> op, id |-> id, title |-> title, author |-> author, year |-> year]

Response(status, body) == [status |-> status, body |-> body]

(* Truthiness of an optional text or integer: None, "" and 0 are falsy. *)
TruthyText(v) == v # None /\ v[1] # <<>>
TruthyInt(v) == v # None /\ v[1] # 0

(* The filters search_books adds to its query, applied to one row. *)
Matches(b, title, author, year) ==
    /\ TruthyText(title) => ILike(b.title, title[1])
    /\ TruthyText(author) => ILike(b.author, author[1])
    /\ year # None => (b.year # None /\ b.year[1] = year[1])

(* query.all(): the rows that pass the filters, in table order. *)
RECURSIVE SearchRows(_, _, _, _)
SearchRows(rows, title, author, year) ==
    IF rows = <<>> THEN <<>>
    ELSE IF Matches(Head(rows), title, author, year)
         THEN <<Head(rows)>> \o SearchRows(Tail(rows), title, author, year)
         ELSE SearchRows(Tail(rows), title, author, year)

(* GET /books/search/ *)
SearchBooks(title, author, year) ==
    /\ req' = Request("search", 0, title, author, year)
    /\ IF ~TruthyText(title) /\ ~TruthyText(author) /\ ~TruthyInt(year)
       THEN resp' = Response(400, <<>>)
       ELSE resp' = Response(200, SearchRows(books, title, author, year))
    /\ books' = books

(* POST /books/ : a body the BookCreate validators reject is answered 422. *)
AddBook(title, author, year) ==
    /\ req' = Request("add", 0, Some(title), Some(author), year)
    /\ IF NotEmpty(title) /\ NotEmpty(author) /\ ValidYear(year)
       THEN /\ Len(books) < MaxBooks
            /\ NewId(books) <= MaxId
            /\ LET new == [id |-> NewId(books), title |-> title,
                           author |-> author, year |-> year]
               IN /\ books' = Append(books, new)
                  /\ resp' = Response(201, <<new>>)
       ELSE /\ resp' = Response(422, <<>>)
            /\ books' = books

(* GET /books/ *)
GetAllBooks ==
    /\ req' = Request("all", 0, None, None, None)
    /\ resp' = Response(200, books)
    /\ books' = books

(* check_book: the index of the row with that id, 0 when it raises 404. *)
CheckBook(rows, id) ==
    IF \E i \in DOMAIN rows : rows[i].id = id
    THEN CHOOSE i \in DOMAIN rows : rows[i].id = id
    ELSE 0

(* DELETE /books/{book_id} *)
DeleteBooks(id) ==
    /\ req' = Request("delete", id, None, None, None)
    /\ LET i == CheckBook(books, id)
       IN IF i = 0
          THEN resp' = Response(404, <<>>) /\ books' = books
          ELSE /\ books' = SubSeq(books, 1, i - 1) \o SubSeq(books, i + 1, Len(books))
               /\ resp' = Response(200, <<>>)

(* PUT /books/{book_id} : a body the BookUpdate validators reject is       *)
(* answered 422 before the handler runs.                                   *)
UpdateBookDetails(id, title, author, year) ==
    /\ req' = Request("update", id, title, author, year)
    /\ LET i == CheckBook(books, id)
       IN IF ~(NotEmptyOpt(title) /\ NotEmptyOpt(author) /\ ValidYear(year))
          THEN resp' = Response(422, <<>>) /\ books' = books
          ELSE IF i = 0
          THEN resp' = Response(404, <<>>) /\ books' = books
          ELSE LET updated ==
                       [books[i] EXCEPT
                          !.title = IF title # None THEN title[1] ELSE @,
                          !.author = IF author # None THEN author[1] ELSE @,
                          !.year = IF year # None THEN year ELSE @]
               IN /\ books' = [books EXCEPT ![i] = updated]
                  /\ resp' = Response(200, <<updated>>)

Init ==
    /\ students = <<>>
    /\ pc = "choice"
    /\ cur = 0
    /\ inp = <<>>
    /\ out = <<Banner>>
    /\ books = <<>>
    /\ req = Request("none", 0, None, None, None)
    /\ resp = Response(0, <<>>)

Next ==
    \/ \E s \in ChoiceInputs : MainLoop(s) /\ UNCHANGED bookVars
    \/ \E s \in NameInputs : AddStudent(s) /\ UNCHANGED bookVars
    \/ \E s \in NameInputs : AddGrades(s) /\ UNCHANGED bookVars
    \/ \E s \in GradeInputs : AddGradesLoop(s) /\ UNCHANGED bookVars

Spec == Init /\ [][Next]_vars

NextBooks ==
    \/ \E t \in TitleInputs, a \in AuthorInputs, y \in YearInputs :
           AddBook(t, a, y) /\ UNCHANGED rosterVars
    \/ GetAllBooks /\ UNCHANGED rosterVars
    \/ \E id \in 1..MaxId : DeleteBooks(id) /\ UNCHANGED rosterVars
    \/ \E id \in 1..MaxId, t \in UpdateTitles, a \in UpdateAuthors,
          y \in UpdateYears :
           UpdateBookDetails(id, t, a, y) /\ UNCHANGED rosterVars
    \/ \E t \in SearchTitles, a \in SearchAuthors, y \in SearchYears :
           SearchBooks(t, a, y) /\ UNCHANGED rosterVars

SpecBooks == Init /\ [][NextBooks]_vars

(* ------------------------------ properties ----------------------------- *)

(* The program has just finished the menu operation `n` and shows the menu. *)
AfterChoice(n) ==
    pc = "choice" /\ ParseInt(inp).ok /\ ParseInt(inp).val = n

Graded(roster) == {i \in DOMAIN roster : roster[i].grades # <<>>}

HasLine(lines, tag) == \E k \in DOMAIN lines : lines[k][1] = tag

NameInRoster(roster, name) == \E i \in DOMAIN roster : roster[i].name = name

NoDuplicateNames ==
    \A i, j \in DOMAIN students :
        i # j => students[i].name # students[j].name

DuplicateRejected ==
    (pc = "add_student" /\ CheckInput(inp').ok
        /\ NameInRoster(students, Normalize(inp')))
    => /\ students' = students
       /\ out' = << Line("exists", Normalize(inp'), 0) >>
       /\ pc' = "add_student"

(* C1: no two records of the roster ever have the same name, and           *)
(* add_student reading a name whose normalized form is already in the      *)
(* roster appends nothing, prints the duplicate message and asks again.    *)
C1_UniqueNames == []NoDuplicateNames /\ [][DuplicateRejected]_vars

(* C1 witness: " AL " was refused while the roster holds "Al" exactly once. *)
C1_Witness ==
    /\ pc = "add_student"
    /\ inp = <<" ","A","L"," ">>
    /\ out = << Line("exists", <<"A","l">>, 0) >>
    /\ Cardinality({i \in DOMAIN students : students[i].name = <<"A","l">>}) = 1
    /\ Len(students) >= 2

GradesInRange ==
    \A i \in DOMAIN students :
        \A k \in DOMAIN students[i].grades :
            students[i].grades[k] \in 0..100

IsSentinel(s) == LowerStr(s) = DONE

IsGradeText(s) == ParseInt(s).ok /\ ParseInt(s).val \in 0..100

GradeEntryStep ==
    pc = "grade" =>
        /\ IsSentinel(inp') => (students' = students /\ pc' = "choice")
        /\ (~IsSentinel(inp') /\ ~IsGradeText(inp'))
              => (students' = students /\ pc' = "grade")

(* C2: every stored grade is an integer of 0..100; at the grade prompt a   *)
(* line that is no integer of 0..100 leaves the roster as it is and the    *)
(* prompt repeats, and "done" in any letter case ends the entry and stores *)
(* nothing.                                                                *)
C2_GradesInRange == []GradesInRange /\ [][GradeEntryStep]_vars

(* C2 witness: 0 and 100 were stored and "101" was then refused. *)
C2_Witness ==
    /\ pc = "grade"
    /\ inp = <<"1","0","1">>
    /\ out = << Line("invalid_grade", <<>>, 0) >>
    /\ students[cur].grades = <<0, 100>>

ReportingStep ==
    (pc = "choice" /\ ParseInt(inp').ok /\ ParseInt(inp').val \in {3, 4})
    => students' = students

(* C3: a step that runs show_report or find_top_performer leaves the       *)
(* roster exactly as it was.                                               *)
C3_ReportingKeepsRoster == [][ReportingStep]_vars

(* C3 witness: a report was printed for a roster with a graded and an      *)
(* ungraded student.                                                       *)
C3_Witness ==
    /\ AfterChoice(3)
    /\ HasLine(out, "max")
    /\ HasLine(out, "na")
    /\ Len(students) >= 2

InvalidChoice(s) == ~ParseInt(s).ok \/ ParseInt(s).val \notin 1..5

MenuStep ==
    /\ (pc = "choice" /\ InvalidChoice(inp'))
          => /\ students' = students
             /\ pc' = "choice"
             /\ out' = << Line("range_error", <<>>, 0), Banner >>
    /\ (pc = "choice" /\ ~InvalidChoice(inp'))
          => ((pc' = "exit") <=> (ParseInt(inp').val = 5))
    /\ (pc = "choice" /\ ~InvalidChoice(inp') /\ ParseInt(inp').val \in {3, 4})
          => pc' = "choice"
    /\ (pc # "choice") => (pc' # "exit" \/ pc = "exit")
    /\ (pc = "exit") => UNCHANGED rosterVars
    /\ (pc = "add_student") => pc' \in {"add_student", "choice"}
    /\ (pc = "add_grades") => pc' \in {"add_grades", "grade", "choice"}
    /\ (pc = "grade") => pc' \in {"grade", "choice"}

(* C4: at the menu a line that is no integer of 1..5 leaves the roster     *)
(* unchanged, starts no operation, prints the range message and shows the  *)
(* menu again; the program ends only in a menu step that reads 5 and reads *)
(* nothing afterwards; operations 1..4 lead nowhere but back to the menu.  *)
C4_MenuLoop == [][MenuStep]_vars

(* C4 witness: "6" was refused at the menu of a non-empty roster. *)
C4_Witness ==
    /\ pc = "choice"
    /\ inp = <<"6">>
    /\ out = << Line("range_error", <<>>, 0), Banner >>
    /\ students # <<>>

AvgGE(a, b) ==
    Sum(a.grades) * Len(b.grades) >= Sum(b.grades) * Len(a.grades)

(* i is the first student whose average no graded student exceeds. *)
IsFirstTop(roster, i) ==
    /\ i \in Graded(roster)
    /\ \A j \in Graded(roster) : AvgGE(roster[i], roster[j])
    /\ \A j \in Graded(roster) : j < i => ~AvgGE(roster[j], roster[i])

(* C5: find_top_performer names a graded student whose unrounded average   *)
(* no other graded student exceeds, and of several such the one inserted   *)
(* first.                                                                  *)
C5_TopPerformer ==
    (AfterChoice(4) /\ Graded(students) # {})
    => \E i \in DOMAIN students :
           /\ IsFirstTop(students, i)
           /\ out[1][1] = "top"
           /\ out[1][2] = students[i].name

(* C5 witness: two students with different grades tie for the top and the  *)
(* earlier one is named.                                                   *)
C5_Witness ==
    /\ AfterChoice(4)
    /\ \E i, j \in Graded(students) :
          /\ i < j
          /\ students[i].grades # students[j].grades
          /\ AvgGE(students[i], students[j])
          /\ AvgGE(students[j], students[i])
          /\ IsFirstTop(students, i)
          /\ out[1] = Line("top", students[i].name, Average(students[i]))

NameStep ==
    (pc = "add_grades" /\ CheckInput(inp').ok)
    => /\ pc' # "add_grades"
       /\ ~NameInRoster(students, Normalize(inp'))
             => /\ pc' = "choice"
                /\ students' = students
                /\ out' = << Line("not_found", Normalize(inp'), 0), Banner >>

(* C6: add_grades reading a valid name that is not in the roster prints    *)
(* the not-found message and is back at the menu with the roster unchanged *)
(* and no further prompt; the name prompt repeats only for an invalid      *)
(* name.                                                                   *)
C6_NotFoundReturns == [][NameStep]_vars

(* C6 witness: "o'n" was not found in a non-empty roster. *)
C6_Witness ==
    /\ pc = "choice"
    /\ inp = <<"o","'","n">>
    /\ out = << Line("not_found", <<"O","'","N">>, 0), Banner >>
    /\ students # <<>>

NALines(roster) == [i \in DOMAIN roster |-> Line("na", roster[i].name, 0)]

(* C7: show_report prints the max, min and overall lines, and              *)
(* find_top_performer a top student, exactly when some student has a       *)
(* grade; with an empty roster both print only "No students available.";   *)
(* with students and no grade show_report prints (after its heading) one   *)
(* N/A line per student in roster order and then the one line "No grades   *)
(* available for summary.", and find_top_performer prints "No grades       *)
(* available".                                                             *)
C7_ReportShape ==
    /\ AfterChoice(3) =>
          /\ (HasLine(out, "max") /\ HasLine(out, "min") /\ HasLine(out, "overall"))
                <=> Graded(students) # {}
          /\ (HasLine(out, "max") \/ HasLine(out, "min") \/ HasLine(out, "overall"))
                => Graded(students) # {}
          /\ students = <<>> => out = << Line("no_students", <<>>, 0), Banner >>
          /\ (students # <<>> /\ Graded(students) = {})
                => out = << Line("header", <<>>, 0) >> \o NALines(students)
                         \o << Line("no_grades_summary", <<>>, 0), Banner >>
    /\ AfterChoice(4) =>
          /\ HasLine(out, "top") <=> Graded(students) # {}
          /\ students = <<>> => out = << Line("no_students", <<>>, 0), Banner >>
          /\ (students # <<>> /\ Graded(students) = {})
                => out = << Line("no_grades", <<>>, 0), Banner >>

(* C7 witness: a report of three students, none with a grade. *)
C7_Witness ==
    /\ AfterChoice(3)
    /\ Len(students) = 3
    /\ Graded(students) = {}
    /\ Len(out) = 6

AppendsRecord ==
    /\ pc = "add_student"
    /\ Len(students') = Len(students) + 1
    /\ SubSeq(students', 1, Len(students)) = students
    /\ students'[Len(students')].grades = <<>>

AppendsGrade ==
    /\ pc = "grade"
    /\ Len(students') = Len(students)
    /\ \E i \in DOMAIN students :
          /\ students'[i].name = students[i].name
          /\ Len(students'[i].grades) = Len(students[i].grades) + 1
          /\ SubSeq(students'[i].grades, 1, Len(students[i].grades))
                = students[i].grades
          /\ \A j \in DOMAIN students : j # i => students'[j] = students[j]

(* C8: the roster starts empty, and every step leaves it unchanged, or     *)
(* (in add_student) appends one record without grades at its end, or (at   *)
(* the grade prompt) appends one grade at the end of one record's grades.  *)
C8_AppendOnly ==
    students = <<>>
    /\ [][students' = students \/ AppendsRecord \/ AppendsGrade]_vars

(* C8 witness: three records were appended and one of them got two grades. *)
C8_Witness ==
    /\ Len(students) = 3
    /\ \E i \in DOMAIN students : Len(students[i].grades) = 2

(* The value of the line tagged `tag`. *)
LineValue(lines, tag) ==
    lines[CHOOSE k \in DOMAIN lines : lines[k][1] = tag][3]

(* C10: whenever some student has a grade, the average find_top_performer  *)
(* prints for the top student is the "Max average" show_report prints for  *)
(* the same roster.                                                        *)
C10_ReportsAgree ==
    /\ (AfterChoice(4) /\ Graded(students) # {})
          => \A lines \in ShowReportLines(students) :
                 LineValue(lines, "max") = LineValue(out, "top")
    /\ (AfterChoice(3) /\ Graded(students) # {})
          => LineValue(out, "max")
                 = LineValue(FindTopPerformerLines(students), "top")

(* C10 witness: the top of two graded students with different averages was *)
(* printed.                                                                *)
C10_Witness ==
    /\ AfterChoice(4)
    /\ \E i, j \in Graded(students) :
          /\ ~AvgGE(students[j], students[i])
          /\ out[1] = Line("top", students[i].name, Average(students[i]))

(* text contains part, letter case ignored. *)
Contains(text, part) ==
    \E k \in 0..(Len(text) - Len(part)) :
        LowerStr(SubSeq(text, k + 1, k + Len(part))) = LowerStr(part)

RowMatches(b, title, author, year) ==
    /\ title # None => Contains(b.title, title[1])
    /\ author # None => Contains(b.author, author[1])
    /\ year # None => (b.year # None /\ b.year[1] = year[1])

(* C9: search_books answers 400 when no search parameter is given, and     *)
(* with at least one parameter given it answers the books that match every *)
(* given criterion, for every year including 0.                            *)
C9_Search ==
    req.op = "search" =>
        IF req.title = None /\ req.author = None /\ req.year = None
        THEN resp.status = 400
        ELSE /\ resp.status = 200
             /\ \A i \in DOMAIN books :
                   RowMatches(books[i], req.title, req.author, req.year)
                   <=> \E k \in DOMAIN resp.body : resp.body[k] = books[i]
             /\ \A k \in DOMAIN resp.body :
                   \E i \in DOMAIN books : resp.body[k] = books[i]

====
